---------------------------- MODULE Spec2Model ----------------------------
(***************************************************************************)
(* SqliteCacheAdapter of cache-manager-better-sqlite3: a TTL-aware         *)
(* key-value cache kept in one SQLite table                                *)
(*   kv(key TEXT PRIMARY KEY, val BLOB, created_at INTEGER,                *)
(*      expire_at INTEGER).                                                *)
(* Every method of the adapter is an async function whose body runs        *)
(* synchronously (better-sqlite3 is synchronous), so one call is one       *)
(* step.  The only detached work is the purge that get/mget hand to        *)
(* process.nextTick.                                                       *)
(***************************************************************************)
EXTENDS Integers, Sequences, FiniteSets, TLC

(***************************************************************************)
(* Bounds of the model.                                                    *)
(***************************************************************************)
MaxTime == 2        \* the clock runs over 0..MaxTime (milliseconds)
MaxBatch == 2       \* longest key list / pair list of one call
MaxPending == 1     \* most purges waiting in the nextTick queue

Keys == {"a", "b"}

VARIABLES
    rows,         \* the table, as the sequence of its rows in rowid order
    clock,        \* what new Date().getTime() returns
    pending,      \* purges queued by process.nextTick and not yet run
    serializer,   \* options.serializer of this adapter
    isCacheable,  \* options.isCacheable of this adapter
    written,      \* per key, the last write the adapter completed for it
    last          \* the most recent call and what it gave back

vars == <<rows, clock, pending, serializer, isCacheable, written, last>>

(***************************************************************************)
(* JavaScript numbers and the SQL values they are bound to.  A number is   *)
(* finite, Infinity or NaN; an absent argument is undefined; a column      *)
(* can hold NULL.                                                          *)
(***************************************************************************)
Num(n) == [kind |-> "num", n |-> n]
Infinity == [kind |-> "inf", n |-> 0]
NaN == [kind |-> "nan", n |-> 0]
undefined == [kind |-> "undef", n |-> 0]
NULL == [kind |-> "null", n |-> 0]

\* a sum that takes the ttl off the timestamp
JsAddSubtracts(ts, x) ==
    CASE x.kind = "num" -> Num(ts - x.n)
      [] x.kind = "inf" -> Infinity
      [] OTHER -> NaN

\* ts + ttl of mset, ts finite
JsAdd(ts, x) ==
    CASE x.kind = "num" -> Num(ts + x.n)
      [] x.kind = "inf" -> Infinity
      [] OTHER -> NaN

\* e - ts of ttl(), e a column value that is not NULL
JsSub(e, ts) == IF e.kind = "num" THEN Num(e.n - ts) ELSE e

\* x * m, m a positive integer
JsMul(x, m) == IF x.kind = "num" THEN Num(x.n * m) ELSE x

\* a number handed to a statement: SQLite stores NaN as NULL
BindNumber(x) == IF x.kind = "nan" THEN NULL ELSE x

\* e < ts and e > ts for a column value e that is not NULL
JsLess(e, ts) == e.kind = "num" /\ e.n < ts
JsGreater(e, ts) == e.kind = "inf" \/ (e.kind = "num" /\ e.n > ts)

\* !e : null and 0 are falsy
JsNot(e) == e.kind = "null" \/ (e.kind = "num" /\ e.n = 0)

(***************************************************************************)
(* Payloads: what a serializer returns and the val column holds.           *)
(* str tells a string (json) from a Buffer (cbor).                         *)
(***************************************************************************)
NullVal == [isnull |-> TRUE, str |-> FALSE, bytes |-> <<>>]
Text(b) == [isnull |-> FALSE, str |-> TRUE, bytes |-> b]
Blob(b) == [isnull |-> FALSE, str |-> FALSE, bytes |-> b]

\* r.val used as a condition: null and the empty string are falsy
Truthy(v) == ~v.isnull /\ ~(v.str /\ v.bytes = <<>>)

(***************************************************************************)
(* Application values: numbers, and a BigInt, which JSON.stringify         *)
(* refuses.                                                                *)
(***************************************************************************)
Number(n) == [t |-> "number", n |-> n]
BigInt(n) == [t |-> "bigint", n |-> n]

\* the values callers store; the BigInt is offered to the json serializer
Numbers == {Number(1), Number(2)}
BigInts == {BigInt(1)}
AllValues == Numbers \cup BigInts
Values == IF serializer = "json" THEN AllValues ELSE Numbers

Threw(e) == [ok |-> FALSE, val |-> NullVal, v |-> Number(0), err |-> e]
Gave(p) == [ok |-> TRUE, val |-> p, v |-> Number(0), err |-> "none"]
Parsed(x) == [ok |-> TRUE, val |-> NullVal, v |-> Number(x), err |-> "none"]

Serializers == {"json", "cbor", "badSerialize", "badDeserialize"}

\* JSON.stringify: a one-digit number gives its ASCII digit, a BigInt a TypeError
jsonSerialize(o) ==
    IF o.t = "bigint" THEN Threw("TypeError") ELSE Gave(Text(<<48 + o.n>>))

\* JSON.parse: a digit string parses, anything else is a SyntaxError
jsonDeserialize(p) ==
    IF ~p.isnull /\ Len(p.bytes) = 1 /\ p.bytes[1] \in 48..57
    THEN Parsed(p.bytes[1] - 48)
    ELSE Threw("SyntaxError")

\* cbor.encode of an unsigned integer below 24: the one byte holding it
cborSerialize(o) == Gave(Blob(<<o.n>>))

cborDeserialize(p) ==
    IF ~p.isnull /\ Len(p.bytes) = 1 /\ p.bytes[1] \in 0..23
    THEN Parsed(p.bytes[1])
    ELSE Threw("DecodeError")

\* the serialize function of the configured serializer
serializer_serialize(o) ==
    CASE serializer = "json" -> jsonSerialize(o)
      [] serializer = "cbor" -> cborSerialize(o)
      [] serializer = "badDeserialize" -> jsonSerialize(o)
      [] OTHER -> Threw("Fake error")

\* the deserialize function of the configured serializer
serializer_deserialize(p) ==
    CASE serializer = "json" -> jsonDeserialize(p)
      [] serializer = "cbor" -> cborDeserialize(p)
      [] OTHER -> Threw("Fake error")

(***************************************************************************)
(* The private methods #serialize and #deserialize: they hand the          *)
(* serializer's result, or what it threw, straight to the caller.          *)
(***************************************************************************)
serializeSwallow(obj) ==
    IF serializer_serialize(obj).ok THEN serializer_serialize(obj) ELSE Gave(NullVal)

serialize(obj) == serializer_serialize(obj)

deserialize(payload) == serializer_deserialize(payload)

(***************************************************************************)
(* The table.                                                              *)
(***************************************************************************)
Range(s) == {s[i] : i \in 1..Len(s)}

BoundedSeq(S, n) == UNION {[1..m -> S] : m \in 0..n}

HasRow(tbl, k) == \E i \in 1..Len(tbl) : tbl[i].key = k

StoredRow(tbl, k) == tbl[CHOOSE i \in 1..Len(tbl) : tbl[i].key = k]

CacheRow(k, v, c, e) == [key |-> k, val |-> v, created_at |-> c, expire_at |-> e]

\* the row a LEFT JOIN gives for a key that has no row
MissRow(k) == CacheRow(k, NullVal, NULL, NULL)

DropKey(tbl, k) == SelectSeq(tbl, LAMBDA r : r.key # k)

\* an upsert that replaces the whole table by the row it writes
UpsertStatementReplacesTable(tbl, k, v, c, e) ==
    <<CacheRow(k, v, BindNumber(c), BindNumber(e))>>

\* INSERT OR IGNORE: an upsert that leaves a key alone once it has a row
UpsertStatementIgnoresExisting(tbl, k, v, c, e) ==
    IF HasRow(tbl, k) THEN tbl
    ELSE Append(tbl, CacheRow(k, v, BindNumber(c), BindNumber(e)))

\* an upsert that updates a row in place and leaves its created_at
UpsertStatementKeepsCreatedAt(tbl, k, v, c, e) ==
    Append(DropKey(tbl, k),
           CacheRow(k, v, IF HasRow(tbl, k) THEN StoredRow(tbl, k).created_at
                                            ELSE BindNumber(c),
                    BindNumber(e)))

\* INSERT OR REPLACE INTO kv(key, val, created_at, expire_at) VALUES (?, ?, ?, ?)
UpsertStatement(tbl, k, v, c, e) ==
    Append(DropKey(tbl, k), CacheRow(k, v, BindNumber(c), BindNumber(e)))

\* a delete that takes every row along with the one it was asked for
DeleteStatementTakesAll(tbl, k) == IF HasRow(tbl, k) THEN <<>> ELSE tbl

\* DELETE FROM kv WHERE key = ?
DeleteStatement(tbl, k) == DropKey(tbl, k)

\* a purge that goes by the age of the rows: it takes those written before ts
PurgeExpiredStatementByCreation(tbl, ts) ==
    SelectSeq(tbl, LAMBDA r : ~(r.created_at.kind = "num" /\ r.created_at.n < ts))

\* a purge that also takes the rows expiring in this very millisecond
PurgeExpiredStatementInclusive(tbl, ts) ==
    SelectSeq(tbl, LAMBDA r : ~(r.expire_at.kind = "num" /\ r.expire_at.n <= ts))

\* DELETE FROM kv WHERE expire_at < ? : NULL compares as unknown, so the row stays
PurgeExpiredStatement(tbl, ts) == SelectSeq(tbl, LAMBDA r : ~JsLess(r.expire_at, ts))

\* SELECT * FROM kv WHERE key = ? : the row, or undefined
SelectKeyStatement(tbl, k) == IF HasRow(tbl, k) THEN StoredRow(tbl, k) ELSE MissRow(k)

\* WITH getKeys(key) AS (VALUES (?), ...) SELECT ... FROM getKeys LEFT JOIN kv
fetchAll(tbl, keys) ==
    [i \in 1..Len(keys) |->
        IF HasRow(tbl, keys[i]) THEN StoredRow(tbl, keys[i]) ELSE MissRow(keys[i])]

(***************************************************************************)
(* The texts of keys and patterns, character by character, and the two     *)
(* statements that list keys.                                              *)
(***************************************************************************)
\* the characters of a key: the keys of the model are one character long
Spelling(k) == <<k>>

\* the pattern argument of keys: left out, or a text
NoPattern == [given |-> FALSE, text |-> <<>>]
Pattern(text) == [given |-> TRUE, text |-> text]

\* LIKE folds the case of ASCII letters
Lower(c) == IF c = "A" THEN "a" ELSE IF c = "B" THEN "b" ELSE c

\* the code point of a character, for the BINARY collation of the key column
CharCode(c) ==
    CASE c = "%" -> 37 [] c = "A" -> 65 [] c = "B" -> 66 [] c = "_" -> 95
      [] c = "a" -> 97 [] c = "b" -> 98

\* text LIKE pattern: % matches any run of characters, _ any one character
RECURSIVE Like(_, _)
Like(text, pat) ==
    IF pat = <<>> THEN text = <<>>
    ELSE IF Head(pat) = "%"
         THEN Like(text, Tail(pat)) \/ (text # <<>> /\ Like(Tail(text), pat))
    ELSE /\ text # <<>>
         /\ Head(pat) = "_" \/ Lower(Head(pat)) = Lower(Head(text))
         /\ Like(Tail(text), Tail(pat))

\* s sorts before t in the BINARY collation
RECURSIVE TextLess(_, _)
TextLess(s, t) ==
    IF t = <<>> THEN FALSE
    ELSE IF s = <<>> THEN TRUE
    ELSE IF CharCode(Head(s)) # CharCode(Head(t))
         THEN CharCode(Head(s)) < CharCode(Head(t))
    ELSE TextLess(Tail(s), Tail(t))

\* the keys of S in the order of the primary key's index
RECURSIVE IndexOrder(_)
IndexOrder(S) ==
    IF S = {} THEN <<>>
    ELSE LET least == CHOOSE k \in S :
                         \A j \in S : ~TextLess(Spelling(j), Spelling(k))
         IN  <<least>> \o IndexOrder(S \ {least})

\* the rows of tbl in ascending created_at; rows of one created_at stay in
\* the order of the table, as the engine's sorter leaves them
RECURSIVE OrderByCreatedAt(_)
OrderByCreatedAt(tbl) ==
    IF tbl = <<>> THEN <<>>
    ELSE LET i == CHOOSE i \in 1..Len(tbl) :
                    /\ \A j \in 1..Len(tbl) :
                         tbl[i].created_at.n <= tbl[j].created_at.n
                    /\ \A j \in 1..(i - 1) :
                         tbl[j].created_at.n # tbl[i].created_at.n
         IN  <<tbl[i]>> \o
             OrderByCreatedAt(SubSeq(tbl, 1, i - 1) \o SubSeq(tbl, i + 1, Len(tbl)))

KeysOf(rs) == [i \in 1..Len(rs) |-> rs[i].key]

\* a listing that leaves out the rows that were written already expired
SelectKeysStatementUnexpired(tbl) ==
    IndexOrder({tbl[i].key : i \in {j \in 1..Len(tbl) :
                                      ~(/\ tbl[j].expire_at.kind = "num"
                                        /\ tbl[j].expire_at.n <= tbl[j].created_at.n)}})

\* SELECT key FROM kv : the engine reads the keys off the primary key's index
SelectKeysStatement(tbl) == IndexOrder({tbl[i].key : i \in 1..Len(tbl)})

\* SELECT key FROM kv WHERE key LIKE ? ORDER BY created_at
SelectKeysPatternStatement(tbl, pat) ==
    KeysOf(OrderByCreatedAt(SelectSeq(tbl, LAMBDA r : Like(Spelling(r.key), pat))))

(***************************************************************************)
(* db.transaction(fn)(): fn's writes are committed when fn returns and     *)
(* rolled back when it throws.  r is what fn did: the table it left and    *)
(* the error it threw, if any.                                             *)
(***************************************************************************)
TransactionNoRollback(before, r) == r.rows

Transaction(before, r) == IF r.err = "none" THEN r.rows ELSE before

\* typeof v === 'number' && v % 2 !== 0, the predicate of the tests
CacheablePredicate(value) == value.t = "number" /\ value.n % 2 # 0

\* new Error(`no cacheable value ${JSON.stringify(value)}`): the message is
\* built before the error is; what JSON.stringify throws is thrown instead
NoCacheableValue(value) ==
    IF jsonSerialize(value).ok
    THEN "no cacheable value " \o ToString(value.n)
    ELSE jsonSerialize(value).err

\* how often the loop of mset has called the predicate when it has stopped at
\* pair at, or come to its end: once in every iteration it began
IsCachableCalls(args, at) ==
    IF isCacheable = "none" THEN 0
    ELSE IF at > Len(args) THEN Len(args) ELSE at

IsCachableNeverRejects(value) == FALSE

\* this.#isCachable && !this.#isCachable(value)
IsCachableRejects(value) == isCacheable # "none" /\ ~CacheablePredicate(value)

\* a loop that takes a new timestamp, and from it a new expiration, for
\* every pair
RECURSIVE msetLoopStampsEachPair(_, _, _, _, _, _)
msetLoopStampsEachPair(tbl, args, i, ts, expire, failAt) ==
    IF i > Len(args) THEN [rows |-> tbl, err |-> "none", at |-> i]
    ELSE IF IsCachableRejects(args[i].value)
         THEN [rows |-> tbl, err |-> NoCacheableValue(args[i].value), at |-> i]
    ELSE IF ~serialize(args[i].value).ok
         THEN [rows |-> tbl, err |-> serialize(args[i].value).err, at |-> i]
    ELSE IF failAt = i THEN [rows |-> tbl, err |-> "SqliteError", at |-> i]
    ELSE msetLoopStampsEachPair(
             UpsertStatement(tbl, args[i].key, serialize(args[i].value).val,
                             Num(ts + i - 1), JsAdd(i - 1, expire)),
             args, i + 1, ts, expire, failAt)

\* the loop of mset from pair i on; failAt is the pair whose statement the
\* storage engine fails (0: none)
RECURSIVE msetLoop(_, _, _, _, _, _)
msetLoop(tbl, args, i, ts, expire, failAt) ==
    IF i > Len(args) THEN [rows |-> tbl, err |-> "none", at |-> i]
    ELSE IF IsCachableRejects(args[i].value)
         THEN [rows |-> tbl, err |-> NoCacheableValue(args[i].value), at |-> i]
    ELSE IF ~serialize(args[i].value).ok
         THEN [rows |-> tbl, err |-> serialize(args[i].value).err, at |-> i]
    ELSE IF failAt = i THEN [rows |-> tbl, err |-> "SqliteError", at |-> i]
    ELSE msetLoop(UpsertStatement(tbl, args[i].key, serialize(args[i].value).val,
                                  Num(ts), expire),
                  args, i + 1, ts, expire, failAt)

\* the loop of mdel from key i on
RECURSIVE mdelLoop(_, _, _, _)
mdelLoop(tbl, args, i, failAt) ==
    IF i > Len(args) THEN [rows |-> tbl, err |-> "none"]
    ELSE IF failAt = i THEN [rows |-> tbl, err |-> "SqliteError"]
    ELSE mdelLoop(DeleteStatement(tbl, args[i]), args, i + 1, failAt)

(***************************************************************************)
(* What a call gives back.  A slot is a value or undefined.                *)
(***************************************************************************)
Undef == [undef |-> TRUE, v |-> Number(0)]
Present(v) == [undef |-> FALSE, v |-> v]

Pairs == [key : Keys, value : Values]

\* where the storage engine fails in a call of n statements: nowhere (0), or
\* in the last of them, after the ones before it have run
FailPoints(n) == {0, n}

\* the ttl arguments: none, zero, one, and a number that is no number
TtlArgs == {Num(0), Num(1), undefined, NaN}

\* a call, what it was given, what it gave back, and the table it started from
Call(op, keys, pairs, ttl, status, err, out, sched) ==
    [op |-> op, keys |-> keys, pairs |-> pairs, ttl |-> ttl, status |-> status,
     err |-> err, out |-> out, sched |-> sched, failAt |-> 0, before |-> rows,
     num |-> undefined, pattern |-> NoPattern, listed |-> <<>>, calls |-> 0]

Failed(call, failAt) == [call EXCEPT !.failAt = failAt]

\* a call that gives back a number
Gives(call, x) == [call EXCEPT !.num = x]

\* a call in which the predicate was called n times
Called(call, n) == [call EXCEPT !.calls = n]

\* a call that was given a pattern and gives back a list of keys
Lists(call, pattern, ks) == [call EXCEPT !.pattern = pattern, !.listed = ks]

\* an async method: what its body throws rejects its promise
AsyncResultSwallowed(err) == "ok"

AsyncResult(err) == IF err = "none" THEN "ok" ELSE "error"

\* process.nextTick(() => this.#purgeExpired()): the callback does not run
\* now, the table stays as it is until the call has produced its result
nextTickRunsNow(tbl, ts) == PurgeExpiredStatement(tbl, ts)

nextTick(tbl, ts) == tbl

NoCall ==
    [op |-> "none", keys |-> <<>>, pairs |-> <<>>, ttl |-> undefined, status |-> "ok",
     err |-> "none", out |-> <<>>, sched |-> FALSE, failAt |-> 0, before |-> <<>>,
     num |-> undefined, pattern |-> NoPattern, listed |-> <<>>, calls |-> 0]

NotWritten == [has |-> FALSE, v |-> Number(0), ts |-> 0, ttl |-> undefined]

\* #default_ttl = 24 * 60 * 60, no options.ttl given
default_ttl == 24 * 60 * 60

\* the adapter as its constructor leaves it, for the given options
Constructed(sers, preds) ==
    /\ rows = <<>>
    /\ clock = 0
    /\ pending = 0
    /\ serializer \in sers
    /\ isCacheable \in preds
    /\ written = [k \in Keys |-> NotWritten]
    /\ last = NoCall

\* no options: the cbor serializer, no isCacheable
Init == Constructed({"cbor"}, {"none"})

\* serializer: 'json' or the throwing one of the tests, with and without the
\* isCacheable of the tests
InitWrites == Constructed({"json", "badSerialize"}, {"none", "odd"})

\* the custom serializer of the tests whose deserialize throws
InitBadDeserializer == Constructed({"badDeserialize"}, {"none"})

\* no call is running: the caller has taken the result of the one before
Idle == last.op = "none"

\* the caller takes the result of the call that has just run
Return ==
    /\ ~Idle
    /\ last.status # "uncaught"
    /\ last' = NoCall
    /\ UNCHANGED <<rows, clock, pending, serializer, isCacheable, written>>

\* time passes
Tick ==
    /\ Idle
    /\ clock < MaxTime
    /\ clock' = clock + 1
    /\ UNCHANGED <<rows, pending, serializer, isCacheable, written, last>>

(***************************************************************************)
(* mget(...args)                                                           *)
(***************************************************************************)
\* r.expire_at !== null && r.expire_at < ts
IsExpiredRow(r, ts) == r.expire_at.kind # "null" /\ JsLess(r.expire_at, ts)

\* r.expire_at !== null && r.expire_at > ts && r.val
mgetKeeps(r, ts) ==
    r.expire_at.kind # "null" /\ JsGreater(r.expire_at, ts) /\ Truthy(r.val)

mgetSlot(r, ts) ==
    IF mgetKeeps(r, ts) THEN Present(deserialize(r.val).v) ELSE Undef

\* what mget of the keys args, one at least, gives from the table tbl at time
\* ts, and whether it schedules a sweep
mgetOutcome(tbl, args, ts) ==
    LET fetched == fetchAll(tbl, args)
        hasExpiredRow == \E i \in 1..Len(args) : IsExpiredRow(fetched[i], ts)
        thrown == {i \in 1..Len(args) :
                      mgetKeeps(fetched[i], ts) /\ ~deserialize(fetched[i].val).ok}
        first == CHOOSE i \in thrown : \A j \in thrown : i <= j
    IN  IF thrown = {}
        THEN [status |-> "ok", err |-> "none",
              out |-> [i \in 1..Len(args) |-> mgetSlot(fetched[i], ts)],
              sched |-> hasExpiredRow]
        ELSE [status |-> AsyncResult(deserialize(fetched[first].val).err),
              err |-> deserialize(fetched[first].val).err, out |-> <<>>,
              sched |-> hasExpiredRow]

\* failAt: the storage engine fails the call's statement (0: it does not)
mget(args, failAt) ==
    LET ts == clock
        gives == mgetOutcome(rows, args, ts)
        hasExpiredRow == gives.sched
    IN  /\ Idle
        /\ IF Len(args) = 0
           THEN \* VALUES with no row is a syntax error: prepare throws
                /\ last' = Call("mget", args, <<>>, undefined, AsyncResult("SqliteError"),
                                "SqliteError", <<>>, FALSE)
                /\ UNCHANGED <<rows, pending>>
           ELSE IF failAt # 0
           THEN /\ last' = Failed(Call("mget", args, <<>>, undefined,
                                       AsyncResult("SqliteError"), "SqliteError",
                                       <<>>, FALSE), failAt)
                /\ UNCHANGED <<rows, pending>>
           ELSE /\ hasExpiredRow => pending < MaxPending
                /\ pending' = IF hasExpiredRow THEN pending + 1 ELSE pending
                /\ rows' = IF hasExpiredRow THEN nextTick(rows, ts) ELSE rows
                /\ last' = Call("mget", args, <<>>, undefined, gives.status,
                                gives.err, gives.out, gives.sched)
        /\ UNCHANGED <<clock, serializer, isCacheable, written>>

(***************************************************************************)
(* get(key)                                                                *)
(***************************************************************************)
\* what get of key gives from the table tbl at time ts, and whether it
\* schedules a sweep
getOutcome(tbl, key, ts) ==
    LET row == SelectKeyStatement(tbl, key)
        absent == ~HasRow(tbl, key) \/ JsNot(row.expire_at) \/ ~Truthy(row.val)
        expired == ~absent /\ JsLess(row.expire_at, ts)
        res == serializer_deserialize(row.val)
    IN  IF absent \/ expired
        THEN [status |-> "ok", err |-> "none", out |-> <<Undef>>, sched |-> expired]
        ELSE IF res.ok
        THEN [status |-> "ok", err |-> "none", out |-> <<Present(res.v)>>,
              sched |-> FALSE]
        ELSE [status |-> AsyncResult(res.err), err |-> res.err, out |-> <<>>,
              sched |-> FALSE]

get(key, failAt) ==
    LET ts == clock
        gives == getOutcome(rows, key, ts)
        expired == gives.sched
    IN  /\ Idle
        /\ IF failAt # 0
           THEN /\ last' = Failed(Call("get", <<key>>, <<>>, undefined,
                                       AsyncResult("SqliteError"), "SqliteError",
                                       <<>>, FALSE), failAt)
                /\ UNCHANGED <<rows, pending>>
           ELSE /\ expired => pending < MaxPending
                /\ pending' = IF expired THEN pending + 1 ELSE pending
                /\ rows' = IF expired THEN nextTick(rows, ts) ELSE rows
                /\ last' = Call("get", <<key>>, <<>>, undefined, gives.status,
                                gives.err, gives.out, gives.sched)
        /\ UNCHANGED <<clock, serializer, isCacheable, written>>

(***************************************************************************)
(* ttl(key)                                                                *)
(***************************************************************************)
\* !rows || !rows.length || rows[0].expire_at === null ? Infinity
\*                                                     : rows[0].expire_at - now()
ttlResultExpiredIsInfinity(fetched, ts) ==
    IF Len(fetched) = 0 \/ fetched[1].expire_at.kind = "null" THEN Infinity
    ELSE IF JsLess(fetched[1].expire_at, ts) THEN Infinity
    ELSE JsSub(fetched[1].expire_at, ts)

ttlResultNullIsExpired(fetched, ts) ==
    IF Len(fetched) = 0 THEN Infinity
    ELSE IF fetched[1].expire_at.kind = "null" /\ ~fetched[1].val.isnull THEN Num(0)
    ELSE IF fetched[1].expire_at.kind = "null" THEN Infinity
    ELSE JsSub(fetched[1].expire_at, ts)

ttlResult(fetched, ts) ==
    IF Len(fetched) = 0 \/ fetched[1].expire_at.kind = "null"
    THEN Infinity
    ELSE JsSub(fetched[1].expire_at, ts)

\* ttl(key); the name ttl is taken by the ttl argument of set and mset
ttlOfKey(key, failAt) ==
    LET fetched == fetchAll(rows, <<key>>)
    IN  /\ Idle
        /\ last' = IF failAt # 0
                   THEN Failed(Call("ttl", <<key>>, <<>>, undefined,
                                    AsyncResult("SqliteError"), "SqliteError",
                                    <<>>, FALSE), failAt)
                   ELSE Gives(Call("ttl", <<key>>, <<>>, undefined, "ok", "none",
                                   <<>>, FALSE), ttlResult(fetched, clock))
        /\ UNCHANGED <<rows, clock, pending, serializer, isCacheable, written>>

(***************************************************************************)
(* mset(args, keyTTL) and set(key, value, ttl)                             *)
(***************************************************************************)
\* the pair of args that is the last to name key k
LastValueOf(args, k) ==
    args[CHOOSE i \in 1..Len(args) :
            args[i].key = k /\ \A j \in (i + 1)..Len(args) : args[j].key # k].value

msetBody(op, args, keyTTL, failAt) ==
    LET ttl == IF keyTTL.kind = "undef" THEN Num(default_ttl) ELSE keyTTL
        ts == clock
        expire == JsAdd(ts, ttl)
        done == msetLoop(rows, args, 1, ts, expire, failAt)
    IN  /\ Idle
        /\ rows' = Transaction(rows, done)
        /\ written' = IF done.err = "none"
                      THEN [k \in Keys |->
                              IF \E i \in 1..Len(args) : args[i].key = k
                              THEN [has |-> TRUE, v |-> LastValueOf(args, k),
                                    ts |-> ts, ttl |-> keyTTL]
                              ELSE written[k]]
                      ELSE written
        /\ last' = Called(Failed(Call(op, [i \in 1..Len(args) |-> args[i].key], args,
                                      keyTTL, AsyncResult(done.err),
                                      done.err, <<>>, FALSE), failAt),
                          IsCachableCalls(args, done.at))
        /\ UNCHANGED <<clock, pending, serializer, isCacheable>>

mset(args, keyTTL, failAt) == msetBody("mset", args, keyTTL, failAt)

set(key, value, ttl, failAt) ==
    msetBody("set", <<[key |-> key, value |-> value]>>, ttl, failAt)

(***************************************************************************)
(* mdel(...args) and del(key).  del starts mdel and does not wait for it:  *)
(* del's own promise is fulfilled whatever mdel's does.                    *)
(***************************************************************************)
mdelBody(op, args, failAt) ==
    LET done == mdelLoop(rows, args, 1, failAt)
    IN  /\ Idle
        /\ rows' = Transaction(rows, done)
        /\ written' = IF done.err = "none"
                      THEN [k \in Keys |->
                              IF \E i \in 1..Len(args) : args[i] = k
                              THEN NotWritten ELSE written[k]]
                      ELSE written
        /\ last' = Failed(Call(op, args, <<>>, undefined,
                               IF op = "del" THEN "ok" ELSE AsyncResult(done.err),
                               done.err, <<>>, FALSE), failAt)
        /\ UNCHANGED <<clock, pending, serializer, isCacheable>>

mdel(args, failAt) == mdelBody("mdel", args, failAt)

del(key, failAt) == mdelBody("del", <<key>>, failAt)

\* a truncation that spares the rows that never expire
TruncateStatementExpiringOnly(tbl) == SelectSeq(tbl, LAMBDA r : r.expire_at.kind = "null")

\* DELETE FROM kv
TruncateStatement(tbl) == <<>>

\* reset()
reset ==
    /\ Idle
    /\ rows' = TruncateStatement(rows)
    /\ written' = [k \in Keys |-> NotWritten]
    /\ last' = Call("reset", <<>>, <<>>, undefined, "ok", "none", <<>>, FALSE)
    /\ UNCHANGED <<clock, pending, serializer, isCacheable>>

(***************************************************************************)
(* keys(pattern?)                                                          *)
(***************************************************************************)
\* the patterns callers give: none, the empty text, and texts with and
\* without wildcards
Patterns ==
    {NoPattern, Pattern(<<>>), Pattern(<<"%">>), Pattern(<<"a", "%">>),
     Pattern(<<"_">>), Pattern(<<"B">>)}

\* if (pattern): a text that is not empty
PatternIsTruthy(pattern) == pattern.given /\ pattern.text # <<>>

keys(pattern, failAt) ==
    /\ Idle
    /\ last' = IF failAt # 0
               THEN Failed(Lists(Call("keys", <<>>, <<>>, undefined,
                                      AsyncResult("SqliteError"), "SqliteError",
                                      <<>>, FALSE), pattern, <<>>), failAt)
               ELSE Lists(Call("keys", <<>>, <<>>, undefined, "ok", "none",
                               <<>>, FALSE),
                          pattern,
                          IF PatternIsTruthy(pattern)
                          THEN SelectKeysPatternStatement(rows, pattern.text)
                          ELSE SelectKeysStatement(rows))
    /\ UNCHANGED <<rows, clock, pending, serializer, isCacheable, written>>

\* the callback of process.nextTick: #purgeExpired().  Nothing catches what
\* the statement throws there: it is an uncaught exception, and the process
\* ends
purgeExpired(failAt) ==
    /\ Idle
    /\ pending > 0
    /\ pending' = pending - 1
    /\ rows' = IF failAt # 0 THEN rows ELSE PurgeExpiredStatement(rows, clock)
    /\ last' = IF failAt # 0
               THEN Failed(Call("purgeExpired", <<>>, <<>>, undefined, "uncaught",
                                "SqliteError", <<>>, FALSE), failAt)
               ELSE Call("purgeExpired", <<>>, <<>>, undefined, "ok", "none",
                         <<>>, FALSE)
    /\ UNCHANGED <<clock, serializer, isCacheable, written>>

\* the steps of the adapter, for callers that take their ttl arguments from ttls
Calls(ttls) ==
    \/ Return
    \/ Tick
    \/ \E args \in BoundedSeq(Keys, MaxBatch) :
         \E failAt \in FailPoints(Len(args)) : mget(args, failAt)
    \/ \E key \in Keys, failAt \in FailPoints(1) : get(key, failAt)
    \/ \E key \in Keys, failAt \in FailPoints(1) : ttlOfKey(key, failAt)
    \/ \E args \in BoundedSeq(Pairs, MaxBatch), keyTTL \in ttls :
         \E failAt \in FailPoints(Len(args)) : mset(args, keyTTL, failAt)
    \/ \E key \in Keys, value \in Values, ttl \in ttls, failAt \in FailPoints(1) :
         set(key, value, ttl, failAt)
    \/ \E args \in BoundedSeq(Keys, MaxBatch) :
         \E failAt \in FailPoints(Len(args)) : mdel(args, failAt)
    \/ \E key \in Keys, failAt \in FailPoints(1) : del(key, failAt)
    \/ reset
    \/ \E pattern \in Patterns, failAt \in FailPoints(1) : keys(pattern, failAt)
    \/ \E failAt \in FailPoints(1) : purgeExpired(failAt)

Next == Calls(TtlArgs)

\* callers that give no ttl, or a negative one as the tests do
PlainTtlArgs == {undefined, Num(-1)}
NextPlainTtl == Calls(PlainTtlArgs)

\* callers that give no ttl, a negative one, or one that is not a number
LooseTtlArgs == {undefined, Num(-1), NaN}
NextLooseTtl == Calls(LooseTtlArgs)

\* callers whose rows expire in the millisecond they are written
ZeroTtlArgs == {Num(0)}
NextZeroTtl == Calls(ZeroTtlArgs)

\* what Node's scheduling gives: an async call settles, and the callbacks of
\* the nextTick queue run as soon as the running call has finished
Scheduling ==
    /\ WF_vars(Return)
    /\ SF_vars(purgeExpired(0))

Spec == Init /\ [][Next]_vars
SpecSweep == Init /\ [][NextZeroTtl]_vars /\ Scheduling
SpecWrites == InitWrites /\ [][NextPlainTtl]_vars
SpecBadDeserializer == InitBadDeserializer /\ [][NextLooseTtl]_vars

(***************************************************************************)
(* Vocabulary of the properties.                                           *)
(***************************************************************************)
\* freshness: the row's expiration is absent or still in the future
Fresh(r, t) == r.expire_at.kind = "null" \/ JsGreater(r.expire_at, t)

HasFreshRow(k, t) == HasRow(rows, k) /\ Fresh(StoredRow(rows, k), t)

\* a get or mget during which the storage engine did not fail
IsRead == last.op \in {"get", "mget"} /\ last.failAt = 0
IsWrite == last.op \in {"set", "mset"}

\* the ttl a write ran with, in seconds
TtlOf(keyTTL) == IF keyTTL.kind = "undef" THEN Num(default_ttl) ELSE keyTTL

(***************************************************************************)
(* C1: mget(...K), K not empty, returns |K| entries; entry i is the        *)
(* present value of K[i] if K[i] has a fresh row and undefined otherwise,  *)
(* in request order, misses and duplicates keeping their slots.            *)
(***************************************************************************)
C1_MgetSlots ==
    (last.op = "mget" /\ Len(last.keys) >= 1 /\ last.failAt = 0) =>
        /\ last.status = "ok"
        /\ Len(last.out) = Len(last.keys)
        /\ \A i \in 1..Len(last.keys) :
             last.out[i] = IF HasFreshRow(last.keys[i], clock)
                           THEN Present(written[last.keys[i]].v)
                           ELSE Undef

(***************************************************************************)
(* C2: after set(k, v, ttl) with ttl > 0 seconds, get(k) while fewer than  *)
(* ttl seconds have elapsed, with no write, del or reset of k in between,  *)
(* returns v.                                                              *)
(***************************************************************************)
C2_GetWithinTtl ==
    \A k \in Keys :
        (/\ last.op = "get" /\ last.keys = <<k>> /\ last.failAt = 0
         /\ written[k].has
         /\ written[k].ttl.kind = "num" /\ written[k].ttl.n > 0
         /\ clock - written[k].ts < written[k].ttl.n * 1000)
        => (last.status = "ok" /\ last.out = <<Present(written[k].v)>>)

(***************************************************************************)
(* C3: every row written by set/mset has expire_at = now + ttl * 1000,     *)
(* ttl being the call's ttl in seconds or the default ttl.                 *)
(***************************************************************************)
C3_ExpireAtInMilliseconds ==
    (IsWrite /\ last.status = "ok") =>
        \A i \in 1..Len(last.pairs) :
            /\ HasRow(rows, last.pairs[i].key)
            /\ StoredRow(rows, last.pairs[i].key).expire_at
                 = BindNumber(JsAdd(clock, JsMul(TtlOf(last.ttl), 1000)))

C5_NullExpirePresent ==
    IsRead =>
        \A i \in 1..Len(last.keys) :
            (/\ HasRow(rows, last.keys[i])
             /\ StoredRow(rows, last.keys[i]).expire_at.kind = "null")
            => (last.status = "ok" /\ ~last.out[i].undef)

PredicateSaysNo(value) == isCacheable # "none" /\ ~CacheablePredicate(value)

\* an error whose message is 'no cacheable value <some value>'
IsNoCacheableValueError(err) ==
    \E v \in AllValues : err = "no cacheable value " \o ToString(v.n)

Reached(args, failAt, i) ==
    \A j \in 1..(i - 1) :
        /\ ~PredicateSaysNo(args[j].value)
        /\ serializer_serialize(args[j].value).ok
        /\ failAt # j

RejectedAt(args, failAt, i) ==
    Reached(args, failAt, i) /\ PredicateSaysNo(args[i].value)

SerializeFailsAt(args, failAt, i) ==
    /\ Reached(args, failAt, i)
    /\ ~PredicateSaysNo(args[i].value)
    /\ ~serializer_serialize(args[i].value).ok

(***************************************************************************)
(* C7: if the configured predicate rejects the value of a pair of an mset  *)
(* (or the value of a set), the call fails with 'no cacheable value' and   *)
(* none of the pairs takes effect: the stored rows are those from before   *)
(* the call, also for the pairs placed before the rejected one.            *)
(***************************************************************************)
C7_RejectedBatchWritesNothing ==
    (IsWrite /\ \E i \in 1..Len(last.pairs) : RejectedAt(last.pairs, last.failAt, i))
    => (/\ last.status = "error"
        /\ IsNoCacheableValueError(last.err)
        /\ rows = last.before)

\* a batch of two keys, the second rejected: the first key has no row
\* afterwards, and the row the second key had before is still there
C7_Witness ==
    /\ last.op = "mset" /\ Len(last.pairs) = 2
    /\ IsNoCacheableValueError(last.err)
    /\ ~PredicateSaysNo(last.pairs[1].value)
    /\ PredicateSaysNo(last.pairs[2].value)
    /\ last.pairs[1].key # last.pairs[2].key
    /\ ~HasRow(rows, last.pairs[1].key)
    /\ HasRow(rows, last.pairs[2].key)
    /\ rows = last.before

(***************************************************************************)
(* C8: if serializing the value of a pair of set/mset fails, the call      *)
(* fails with that error and no pair of the batch is written; a call that  *)
(* succeeds has stored every key of the batch with the payload of its      *)
(* value, never an empty one.                                              *)
(***************************************************************************)
C8_SerializationFailureAborts ==
    IsWrite =>
        /\ \A i \in 1..Len(last.pairs) :
             SerializeFailsAt(last.pairs, last.failAt, i) =>
               /\ last.status = "error"
               /\ last.err = serializer_serialize(last.pairs[i].value).err
               /\ rows = last.before
        /\ last.status = "ok" =>
             \A i \in 1..Len(last.pairs) :
               /\ HasRow(rows, last.pairs[i].key)
               /\ ~StoredRow(rows, last.pairs[i].key).val.isnull
               /\ StoredRow(rows, last.pairs[i].key).val
                    = serializer_serialize(
                        LastValueOf(last.pairs, last.pairs[i].key)).val

\* a number, then a BigInt that JSON.stringify refuses: the number's key has
\* no row afterwards
C8_Witness ==
    /\ last.op = "mset" /\ Len(last.pairs) = 2
    /\ last.status = "error" /\ last.err = "TypeError"
    /\ last.pairs[1].value.t = "number"
    /\ last.pairs[2].value.t = "bigint"
    /\ last.pairs[1].key # last.pairs[2].key
    /\ ~HasRow(rows, last.pairs[1].key)
    /\ HasRow(rows, last.pairs[2].key)
    /\ rows = last.before

(***************************************************************************)
(* C9: if deserializing the payload of a stored, fresh row fails during    *)
(* get or mget, the read fails with that error; it does not give           *)
(* undefined for the key.  Fresh is the freshness of the reads: expire_at  *)
(* null or in the future.                                                  *)
(***************************************************************************)
C9_DeserializationFailurePropagates ==
    IsRead =>
        \A i \in 1..Len(last.keys) :
            (/\ HasFreshRow(last.keys[i], clock)
             /\ ~serializer_deserialize(StoredRow(rows, last.keys[i]).val).ok)
            => /\ last.status = "error"
               /\ last.err = serializer_deserialize(StoredRow(rows, last.keys[i]).val).err

\* the same for the rows the reads do hand to the deserializer, those whose
\* expire_at is a number in the future: there the error reaches the caller
DeserializationFailureOfUnexpiredRowPropagates ==
    IsRead =>
        \A i \in 1..Len(last.keys) :
            (/\ HasRow(rows, last.keys[i])
             /\ JsGreater(StoredRow(rows, last.keys[i]).expire_at, clock)
             /\ ~serializer_deserialize(StoredRow(rows, last.keys[i]).val).ok)
            => /\ last.status = "error"
               /\ last.err = serializer_deserialize(StoredRow(rows, last.keys[i]).val).err

(***************************************************************************)
(* C10: the state other calls and the purge observe after an mset or an    *)
(* mdel is never one in which only some of its rows were applied: the      *)
(* call took effect entirely or, having failed, not at all.                *)
(***************************************************************************)
C10_BatchesAtomic ==
    last.op \in {"set", "mset", "mdel", "del"} =>
        IF last.err # "none"
        THEN rows = last.before
        ELSE /\ \A i \in 1..Len(last.pairs) :
                  /\ HasRow(rows, last.pairs[i].key)
                  /\ StoredRow(rows, last.pairs[i].key).created_at = Num(clock)
                  /\ StoredRow(rows, last.pairs[i].key).val
                       = serializer_serialize(
                           LastValueOf(last.pairs, last.pairs[i].key)).val
             /\ last.op \in {"mdel", "del"} =>
                  \A i \in 1..Len(last.keys) : ~HasRow(rows, last.keys[i])

\* an mdel of two stored keys whose second delete fails: the first key's row
\* is still there
C10_Witness ==
    /\ last.op = "mdel" /\ Len(last.keys) = 2
    /\ last.failAt = 2 /\ last.err = "SqliteError"
    /\ last.keys[1] # last.keys[2]
    /\ HasRow(rows, last.keys[1])
    /\ HasRow(rows, last.keys[2])
    /\ rows = last.before

(***************************************************************************)
(* C11: at most one row exists per key, in every state; a set/mset on a    *)
(* key that has a row replaces the row's value, created_at and expire_at   *)
(* together with those of the new write, and a get that then finds the     *)
(* key gives the value of that write.                                      *)
(***************************************************************************)
C11_UpsertReplacesWholeRow ==
    /\ \A i, j \in 1..Len(rows) : rows[i].key = rows[j].key => i = j
    /\ (IsWrite /\ last.status = "ok") =>
          \A i \in 1..Len(last.pairs) :
              /\ HasRow(rows, last.pairs[i].key)
              /\ StoredRow(rows, last.pairs[i].key)
                   = CacheRow(last.pairs[i].key,
                              serializer_serialize(
                                  LastValueOf(last.pairs, last.pairs[i].key)).val,
                              Num(clock),
                              BindNumber(JsAdd(clock, TtlOf(last.ttl))))
    /\ (IsRead /\ last.op = "get" /\ last.status = "ok" /\ ~last.out[1].undef) =>
          last.out[1] = Present(written[last.keys[1]].v)

\* a set on a key whose row had another value, another created_at and another
\* expire_at
C11_Witness ==
    /\ last.op = "set" /\ last.status = "ok"
    /\ HasRow(last.before, last.keys[1])
    /\ StoredRow(last.before, last.keys[1]).val # StoredRow(rows, last.keys[1]).val
    /\ StoredRow(last.before, last.keys[1]).created_at
         # StoredRow(rows, last.keys[1]).created_at
    /\ StoredRow(last.before, last.keys[1]).expire_at
         # StoredRow(rows, last.keys[1]).expire_at
    /\ Len(rows) = Len(last.before)

(***************************************************************************)
(* C12: a sweep run at time t removes every row of the table whose         *)
(* expire_at is not null and < t, whatever keys the read that queued it    *)
(* asked for, and removes no row whose expire_at is >= t or null.          *)
(***************************************************************************)
C12_SweepRemovesExactlyTheExpired ==
    (last.op = "purgeExpired" /\ last.status = "ok") =>
        /\ \A i \in 1..Len(last.before) :
             IF /\ last.before[i].expire_at.kind = "num"
                /\ last.before[i].expire_at.n < clock
             THEN ~HasRow(rows, last.before[i].key)
             ELSE /\ HasRow(rows, last.before[i].key)
                  /\ StoredRow(rows, last.before[i].key) = last.before[i]
        /\ \A j \in 1..Len(rows) : HasRow(last.before, rows[j].key)

\* a sweep over two rows: one expired and removed, one that expires in this
\* very millisecond or never, and stays
C12_Witness ==
    /\ last.op = "purgeExpired" /\ last.status = "ok"
    /\ Len(last.before) = 2 /\ Len(rows) = 1
    /\ \/ rows[1].expire_at = Num(clock)
       \/ rows[1].expire_at = NULL

(***************************************************************************)
(* C13: get and mget schedule a sweep if and only if at least one of the   *)
(* rows they fetched is stored and expired, that is, has an expire_at      *)
(* that is not null and <= now.                                            *)
(***************************************************************************)
StoredButExpired(k, t) ==
    /\ HasRow(rows, k)
    /\ StoredRow(rows, k).expire_at.kind = "num"
    /\ StoredRow(rows, k).expire_at.n <= t

C13_SweepScheduledIffExpiredRow ==
    IsRead =>
        (last.sched <=> \E i \in 1..Len(last.keys) : StoredButExpired(last.keys[i], clock))

\* what the reads do: mget schedules for an expire_at strictly below now; get
\* does the same unless expire_at is 0
SweepScheduledAsCoded ==
    IsRead =>
        (last.sched <=>
            \E i \in 1..Len(last.keys) :
                /\ HasRow(rows, last.keys[i])
                /\ StoredRow(rows, last.keys[i]).expire_at.kind = "num"
                /\ StoredRow(rows, last.keys[i]).expire_at.n < clock
                /\ last.op = "get" => StoredRow(rows, last.keys[i]).expire_at.n # 0)

(***************************************************************************)
(* C14: the sweep a read queues does not run before the read has produced  *)
(* its result: when get or mget hands back its result the table is the     *)
(* one the read started from, expired rows included, every value it        *)
(* returns was decoded from a row of that table, and the sweep is still    *)
(* waiting in the queue.                                                   *)
(***************************************************************************)
C14_SweepAfterReadResult ==
    IsRead =>
        /\ rows = last.before
        /\ last.sched => pending >= 1
        /\ last.status = "ok" =>
             \A i \in 1..Len(last.keys) :
                 ~last.out[i].undef =>
                     /\ HasRow(last.before, last.keys[i])
                     /\ last.out[i] = Present(serializer_deserialize(
                                          StoredRow(last.before, last.keys[i]).val).v)

\* an mget that queued a sweep: the expired row it saw is still stored, and
\* the value of the other key was read next to it
C14_Witness ==
    /\ last.op = "mget" /\ last.sched /\ pending = 1
    /\ Len(last.keys) = 2 /\ Len(rows) = 2
    /\ JsLess(StoredRow(rows, last.keys[1]).expire_at, clock)
    /\ last.out[1].undef /\ ~last.out[2].undef
    /\ rows = last.before

(***************************************************************************)
(* C15: whenever a get or mget observes an expired row (one whose          *)
(* expire_at is not null and <= now), a sweep eventually runs, with no     *)
(* further call of the adapter.                                            *)
(***************************************************************************)
ObservesExpiredRow ==
    IsRead /\ \E i \in 1..Len(last.keys) : StoredButExpired(last.keys[i], clock)

SweepRan == last.op = "purgeExpired"

C15_ObservedExpiryLeadsToSweep == ObservesExpiredRow ~> SweepRan

\* what the code gives: a read that queued a sweep is followed by the sweep
QueuedSweepRuns == (IsRead /\ last.sched) ~> SweepRan

EngineFails ==
    /\ last.failAt # 0
    /\ \/ last.op \in {"get", "mget", "ttl"}
       \/ /\ last.op \in {"set", "mset"}
          /\ Reached(last.pairs, last.failAt, last.failAt)
          /\ ~PredicateSaysNo(last.pairs[last.failAt].value)
          /\ serializer_serialize(last.pairs[last.failAt].value).ok

C17_EngineFailureRejects ==
    EngineFails =>
        /\ last.status = "error"
        /\ last.err = "SqliteError"
        /\ last.out = <<>>
        /\ last.num = undefined
        /\ rows = last.before

\* an mset whose second statement the engine fails, after the first has run:
\* the call rejects and the first key has no row
C17_Witness ==
    /\ last.op = "mset" /\ Len(last.pairs) = 2 /\ last.failAt = 2
    /\ last.status = "error" /\ last.err = "SqliteError"
    /\ last.pairs[1].key # last.pairs[2].key
    /\ ~HasRow(rows, last.pairs[1].key)
    /\ rows = last.before

(***************************************************************************)
(* C18: when the storage engine fails while deleting, del(key) and         *)
(* mdel(keys) reject with that error; del does not resolve when the        *)
(* delete of its key failed.                                               *)
(***************************************************************************)
C18_DeleteFailureRejects ==
    (last.op \in {"del", "mdel"} /\ last.failAt # 0) =>
        /\ last.status = "error"
        /\ last.err = "SqliteError"

\* mdel alone does reject
MdelFailureRejects ==
    (last.op = "mdel" /\ last.failAt # 0) =>
        /\ last.status = "error"
        /\ last.err = "SqliteError"
        /\ rows = last.before

(***************************************************************************)
(* C19: mget with an empty key list returns the empty sequence; it does    *)
(* not fail, and schedules no sweep.                                       *)
(***************************************************************************)
C19_EmptyMgetReturnsEmpty ==
    (last.op = "mget" /\ Len(last.keys) = 0) =>
        /\ last.status = "ok"
        /\ last.out = <<>>
        /\ ~last.sched

(***************************************************************************)
(* C20: ttl(key) gives Infinity when the key has no stored row, and        *)
(* gives the same Infinity when its stored row has a null expire_at.       *)
(***************************************************************************)
C20_TtlInfinityForMissingOrNeverExpiring ==
    (/\ last.op = "ttl" /\ last.failAt = 0
     /\ \/ ~HasRow(rows, last.keys[1])
        \/ StoredRow(rows, last.keys[1]).expire_at = NULL)
    => (last.status = "ok" /\ last.num = Infinity)

\* ttl of a key whose stored row has a null expire_at, next to a key with no row
C20_Witness ==
    /\ last.op = "ttl" /\ last.status = "ok" /\ last.num = Infinity
    /\ HasRow(rows, last.keys[1])
    /\ StoredRow(rows, last.keys[1]).expire_at = NULL
    /\ \E k \in Keys : ~HasRow(rows, k)

(***************************************************************************)
(* C21: when set is called without a ttl, the stored row never expires:    *)
(* its expire_at is Infinity.                                              *)
(***************************************************************************)
C21_NoTtlNeverExpires ==
    (/\ last.op = "set" /\ last.status = "ok" /\ last.failAt = 0
     /\ last.ttl = undefined)
    => (/\ HasRow(rows, last.keys[1])
        /\ StoredRow(rows, last.keys[1]).expire_at = Infinity)

\* what the code stores for a write without a ttl: the time of the write plus
\* #default_ttl
NoTtlExpiresAfterDefaultTtl ==
    (/\ IsWrite /\ last.status = "ok" /\ last.failAt = 0
     /\ last.ttl = undefined)
    => \A i \in 1..Len(last.keys) :
         /\ HasRow(rows, last.keys[i])
         /\ StoredRow(rows, last.keys[i]).expire_at = Num(clock + default_ttl)

(***************************************************************************)
(* C22: keys(pattern) returns exactly the stored keys that match the       *)
(* pattern, each once, in the order the keys were written, expired rows    *)
(* included; keys written in the same millisecond are listed in the order  *)
(* of their writes.                                                        *)
(***************************************************************************)
\* the stored keys that match the pattern, in the order of their last writes:
\* a write puts its row at the end of the table
MatchingInWriteOrder(tbl, pat) ==
    KeysOf(SelectSeq(tbl, LAMBDA r : Like(Spelling(r.key), pat)))

IsListing == last.op = "keys" /\ last.failAt = 0

C22_KeysPatternInWriteOrder ==
    (IsListing /\ last.pattern.given) =>
        /\ last.status = "ok"
        /\ last.listed = MatchingInWriteOrder(rows, last.pattern.text)

\* what the code does: the claim, for every pattern that is not the empty text
KeysPatternAsCoded ==
    (IsListing /\ PatternIsTruthy(last.pattern)) =>
        /\ last.status = "ok"
        /\ last.listed = MatchingInWriteOrder(rows, last.pattern.text)

\* a pattern listing of two keys written in one millisecond, the later-sorting
\* key first, one of them expired
KeysPatternListsTiesInWriteOrder ==
    /\ IsListing /\ PatternIsTruthy(last.pattern)
    /\ last.listed = <<"b", "a">>
    /\ rows[1].created_at = rows[2].created_at
    /\ \E i \in 1..2 : JsLess(rows[i].expire_at, clock)

(***************************************************************************)
(* C23: keys() with no pattern returns exactly the keys of all the rows    *)
(* stored, fresh or expired, each once: a key that get reports absent      *)
(* because its row has expired is listed as long as the row is stored.     *)
(***************************************************************************)
C23_KeysListsEveryStoredRow ==
    (IsListing /\ ~last.pattern.given) =>
        /\ last.status = "ok"
        /\ Len(last.listed) = Len(rows)
        /\ Range(last.listed) = {rows[i].key : i \in 1..Len(rows)}

\* keys() lists a key whose row expired before now, next to a fresh one
C23_Witness ==
    /\ IsListing /\ ~last.pattern.given
    /\ Len(last.listed) = 2
    /\ \E i \in 1..Len(rows) :
         /\ IsExpiredRow(rows[i], clock)
         /\ rows[i].key \in Range(last.listed)
    /\ \E i \in 1..Len(rows) : Fresh(rows[i], clock)

(***************************************************************************)
(* C24: after reset(), whatever was stored before, the space holds no      *)
(* rows, and until the next write keys() returns the empty sequence,       *)
(* every slot of get and mget is absent and ttl of every key is Infinity.  *)
(***************************************************************************)
\* reset leaves no row
ResetEmpties == last.op = "reset" => (last.status = "ok" /\ rows = <<>>)

\* a step that is not a write leaves an empty space empty
EmptyUntilWritten == (rows = <<>> /\ last'.op \notin {"set", "mset"}) => rows' = <<>>

\* what the calls give when they start from an empty space
EmptyReadsAbsent ==
    (last.before = <<>> /\ last.failAt = 0) =>
        /\ last.op = "keys" => (last.status = "ok" /\ last.listed = <<>>)
        /\ last.op = "get" => (last.status = "ok" /\ last.out = <<Undef>>)
        /\ (last.op = "mget" /\ Len(last.keys) >= 1) =>
              /\ last.status = "ok"
              /\ last.out = [i \in 1..Len(last.keys) |-> Undef]
        /\ last.op = "ttl" => (last.status = "ok" /\ last.num = Infinity)

C24_ResetEmptiesUntilNextWrite ==
    /\ [](ResetEmpties /\ EmptyReadsAbsent)
    /\ [][EmptyUntilWritten]_vars

\* reset of a space that held an expired row and one that never expires
C24_Witness ==
    /\ last.op = "reset" /\ rows = <<>>
    /\ Len(last.before) = 2
    /\ \E i \in 1..2 : IsExpiredRow(last.before[i], clock)
    /\ \E i \in 1..2 : last.before[i].expire_at = NULL

(***************************************************************************)
(* C25: mdel(K), and del(k) as the case of one key, removes exactly the    *)
(* rows whose keys are in K and leaves every other row as it was; a key    *)
(* of K that has no row is passed over and the call succeeds; when the     *)
(* call's promise resolves, get of every key of K is absent.               *)
(***************************************************************************)
\* an mdel or del during which the storage engine did not fail
IsDelete == last.op \in {"mdel", "del"} /\ last.failAt = 0

C25_DeleteRemovesExactlyItsKeys ==
    /\ IsDelete =>
         /\ last.status = "ok" /\ last.err = "none"
         /\ rows = SelectSeq(last.before, LAMBDA r : r.key \notin Range(last.keys))
    /\ (last.op = "get" /\ last.failAt = 0 /\ ~HasRow(last.before, last.keys[1])) =>
         (last.status = "ok" /\ last.out = <<Undef>>)

\* mdel names a stored key twice, so that its second statement finds no row,
\* and the row of the other key stays
C25_Witness ==
    /\ last.op = "mdel" /\ last.failAt = 0 /\ last.status = "ok"
    /\ Len(last.keys) = 2 /\ last.keys[1] = last.keys[2]
    /\ Len(last.before) = 2 /\ HasRow(last.before, last.keys[1])
    /\ Len(rows) = 1 /\ ~HasRow(rows, last.keys[1])

(***************************************************************************)
(* C26: every stored row whose expire_at is set and that was written with  *)
(* a ttl that is not negative has created_at <= expire_at; only a write    *)
(* with a negative ttl leaves a row with expire_at < created_at.           *)
(***************************************************************************)
\* the ttl the stored row of key k was written with
WrittenTtl(k) == TtlOf(written[k].ttl)

ExpiresBeforeCreated(r) ==
    r.expire_at.kind = "num" /\ r.expire_at.n < r.created_at.n

C26_CreatedNotAfterExpire ==
    \A i \in 1..Len(rows) :
        /\ written[rows[i].key].has
        /\ (/\ rows[i].expire_at.kind # "null"
            /\ WrittenTtl(rows[i].key).kind = "num"
            /\ WrittenTtl(rows[i].key).n >= 0)
           => ~ExpiresBeforeCreated(rows[i])
        /\ ExpiresBeforeCreated(rows[i])
           => (/\ WrittenTtl(rows[i].key).kind = "num"
               /\ WrittenTtl(rows[i].key).n < 0)

\* a row written with a negative ttl next to a row written with no ttl
C26_Witness ==
    /\ Len(rows) = 2
    /\ ExpiresBeforeCreated(rows[1])
    /\ WrittenTtl(rows[1].key) = Num(-1)
    /\ written[rows[2].key].ttl = undefined
    /\ rows[2].expire_at.kind = "num"
    /\ rows[2].created_at.n <= rows[2].expire_at.n

(***************************************************************************)
(* C27: for every state of the store, time t and key k, get(k) at t gives  *)
(* the same result, the same present value or absent, as the one slot of   *)
(* mget(k) at t, and schedules a sweep in exactly the same cases.          *)
(***************************************************************************)
\* the row mget(k) fetches from the table the running call started from
FetchedBefore(k) == fetchAll(last.before, <<k>>)[1]

\* the running get gave what mget of its key gives from the same table at the
\* same time, and scheduled as mget does
GetGaveWhatMgetGives ==
    LET r == FetchedBefore(last.keys[1])
    IN  /\ IF mgetKeeps(r, clock) /\ ~deserialize(r.val).ok
           THEN last.status = "error" /\ last.err = deserialize(r.val).err
           ELSE last.status = "ok" /\ last.out = <<mgetSlot(r, clock)>>
        /\ last.sched = IsExpiredRow(r, clock)

C27_GetAgreesWithMget ==
    (last.op = "get" /\ last.failAt = 0) => GetGaveWhatMgetGives

\* what the code does: get and mget agree on every row except the one that
\* expires in this very millisecond and the one whose expire_at is 0
GetAgreesWithMgetOffTheBoundary ==
    (/\ last.op = "get" /\ last.failAt = 0
     /\ FetchedBefore(last.keys[1]).expire_at \notin {Num(clock), Num(0)})
    => GetGaveWhatMgetGives

\* get and mget agree on a stored row that is fresh
GetAgreesWithMgetOnStoredRow ==
    /\ last.op = "get" /\ last.failAt = 0 /\ GetGaveWhatMgetGives
    /\ HasRow(last.before, last.keys[1])
    /\ last.out # <<Undef>>

(***************************************************************************)
(* C28: all the rows one mset call writes carry the same created_at and    *)
(* the same expire_at, both from the one timestamp the call takes; no      *)
(* pair of the batch gets a timestamp or a ttl of its own.                 *)
(***************************************************************************)
C28_BatchSharesOneTimestamp ==
    (IsWrite /\ last.status = "ok") =>
        \A i \in 1..Len(last.keys) :
            /\ HasRow(rows, last.keys[i])
            /\ StoredRow(rows, last.keys[i]).created_at = Num(clock)
            /\ StoredRow(rows, last.keys[i]).expire_at =
                   BindNumber(JsAdd(clock, TtlOf(last.ttl)))
            /\ \A j \in 1..Len(last.keys) :
                 /\ StoredRow(rows, last.keys[i]).created_at =
                        StoredRow(rows, last.keys[j]).created_at
                 /\ StoredRow(rows, last.keys[i]).expire_at =
                        StoredRow(rows, last.keys[j]).expire_at

\* an mset of two keys, after time 0, over rows written at other times
C28_Witness ==
    /\ last.op = "mset" /\ last.status = "ok"
    /\ Len(last.keys) = 2 /\ last.keys[1] # last.keys[2]
    /\ clock > 0
    /\ Len(last.before) = 2
    /\ last.before[1].created_at # last.before[2].created_at
    /\ StoredRow(rows, last.keys[1]).created_at = Num(clock)
    /\ StoredRow(rows, last.keys[2]).created_at = Num(clock)
    /\ StoredRow(rows, last.keys[1]).expire_at.kind = "num"
    /\ StoredRow(rows, last.keys[1]).expire_at = StoredRow(rows, last.keys[2]).expire_at

(***************************************************************************)
(* C29: a sweep that was scheduled because a key was expired, and that     *)
(* runs after that key has been written again with a fresh ttl, or after   *)
(* any other set, mset, del or reset, does not delete the rewritten row:   *)
(* a sweep removes a row only if the row's expire_at, at the moment the    *)
(* sweep runs, is earlier than the sweep's own timestamp.  Queued sweeps   *)
(* do no harm, however many there are.                                     *)
(***************************************************************************)
\* when the row of the last write of key k expires
WrittenExpireAt(k) == BindNumber(JsAdd(written[k].ts, WrittenTtl(k)))

IsTtlOfExpiringRow ==
    /\ last.op = "ttl" /\ last.failAt = 0
    /\ HasRow(rows, last.keys[1])
    /\ StoredRow(rows, last.keys[1]).expire_at.kind = "num"

C30_TtlIsExpireAtMinusNow ==
    IsTtlOfExpiringRow =>
        LET e == StoredRow(rows, last.keys[1]).expire_at.n
            w == written[last.keys[1]]
        IN  /\ last.status = "ok"
            /\ last.num = Num(e - clock)
            /\ (w.ttl = undefined /\ w.ts = clock) => last.num.n > 0
            /\ e <= clock => (last.num.kind = "num" /\ last.num.n <= 0)

\* ttl of a row that expired a millisecond ago and is still stored
C30_Witness ==
    /\ IsTtlOfExpiringRow
    /\ StoredRow(rows, last.keys[1]).expire_at.n < clock
    /\ last.num = Num(-1)

(***************************************************************************)
(* C31: mset puts the pairs to the cacheability predicate in the order of  *)
(* the batch and stops at the first pair it rejects: when that is pair i,  *)
(* the predicate has been called exactly i times, no later pair is looked  *)
(* at or written, and the error names the value: 'no cacheable value       *)
(* <value>'.                                                               *)
(***************************************************************************)
\* pair i is the first of the batch the predicate says no to
FirstRejectedAt(args, i) ==
    /\ PredicateSaysNo(args[i].value)
    /\ \A j \in 1..(i - 1) : ~PredicateSaysNo(args[j].value)

C31_RejectionStopsAtFirstRejectedPair ==
    \A i \in 1..Len(last.pairs) :
        (IsWrite /\ FirstRejectedAt(last.pairs, i)) =>
            /\ last.calls = i
            /\ last.status = "error"
            /\ last.err = "no cacheable value " \o ToString(last.pairs[i].value.n)
            /\ rows = last.before

\* what the code does: when the loop comes to a pair the predicate rejects,
\* it has called the predicate once per pair so far and stops there, nothing
\* is written, and the error is the one the construction of the message gives
ReachedRejectionStopsTheBatch ==
    \A i \in 1..Len(last.pairs) :
        (IsWrite /\ RejectedAt(last.pairs, last.failAt, i)) =>
            /\ last.calls = i
            /\ last.status = "error"
            /\ last.err = NoCacheableValue(last.pairs[i].value)
            /\ rows = last.before

\* the second pair of a batch is rejected after the first was accepted: two
\* calls of the predicate, and the error names the second value
SecondPairRejectedByName ==
    /\ last.op = "mset" /\ Len(last.pairs) = 2
    /\ RejectedAt(last.pairs, last.failAt, 2)
    /\ last.calls = 2
    /\ last.err = "no cacheable value 2"
    /\ last.before # <<>> /\ rows = last.before

(***************************************************************************)
(* C32: for every key whose stored row has an expire_at that is not null,  *)
(* and every time t, ttl(k) > 0 exactly when get(k) at t returns a         *)
(* present value: ttl never gives a positive time for a key get reports    *)
(* absent, nor zero or a negative time for a key get reports present.      *)
(***************************************************************************)
\* a get of a key whose row, in the table the call started from, has an
\* expire_at
IsGetOfExpiringRow ==
    /\ last.op = "get" /\ last.failAt = 0
    /\ HasRow(last.before, last.keys[1])
    /\ StoredRow(last.before, last.keys[1]).expire_at # NULL

\* what ttl of the key of the running get gives from the same table at the
\* same time is positive
TtlIsPositive ==
    JsGreater(ttlResult(fetchAll(last.before, <<last.keys[1]>>), clock), 0)

GetGavePresent == last.status = "ok" /\ last.out # <<Undef>>

C32_TtlPositiveIffGetPresent ==
    IsGetOfExpiringRow => (TtlIsPositive <=> GetGavePresent)

\* what the code does: ttl and get agree on every row but the one that
\* expires in this very millisecond
TtlPositiveIffGetPresentOffTheBoundary ==
    (/\ IsGetOfExpiringRow
     /\ StoredRow(last.before, last.keys[1]).expire_at # Num(clock))
    => (TtlIsPositive <=> GetGavePresent)

(***************************************************************************)
(* C33: running a sweep never changes the result of a get or an mget: for  *)
(* every state of the store and time t, get and mget at any time >= t      *)
(* return the same values whether or not a sweep ran at t, because a       *)
(* sweep removes only rows that get and mget already report absent.        *)
(***************************************************************************)
\* what the caller of a read sees of its outcome
ResultOf(gives) == [status |-> gives.status, err |-> gives.err, out |-> gives.out]

\* every get and every mget, now or later, gives from tbl1 what it gives
\* from tbl2
SameReads(tbl1, tbl2) ==
    \A t \in clock..MaxTime :
        /\ \A k \in Keys :
             ResultOf(getOutcome(tbl1, k, t)) = ResultOf(getOutcome(tbl2, k, t))
        /\ \A args \in BoundedSeq(Keys, MaxBatch) :
             Len(args) >= 1 =>
                ResultOf(mgetOutcome(tbl1, args, t)) =
                ResultOf(mgetOutcome(tbl2, args, t))

C33_SweepKeepsReadResults ==
    (SweepRan /\ last.status = "ok") => SameReads(rows, last.before)

\* a sweep removes a row and leaves one that get reports present
C33_Witness ==
    /\ SweepRan /\ last.status = "ok"
    /\ Len(last.before) = 2 /\ Len(rows) = 1
    /\ getOutcome(rows, rows[1].key, clock).out # <<Undef>>
    /\ SameReads(rows, last.before)

(***************************************************************************)
(* C34: with a clock that never goes backwards, once get(k) or a slot of   *)
(* mget for k has been absent because the row of k is expired, every       *)
(* later get and mget slot for k is absent until a set or mset writes k    *)
(* again: nothing but a write of k, no sweep, del of another key, read or  *)
(* ttl call, makes an expired key present again.                           *)
(***************************************************************************)
Absent == [status |-> "ok", err |-> "none", out |-> <<Undef>>]

\* the running read has given absent for k, whose row is stored and expired
ReportedAbsentBecauseExpired(k) ==
    /\ IsRead /\ last.status = "ok"
    /\ \E i \in 1..Len(last.keys) : last.keys[i] = k /\ last.out[i] = Undef
    /\ StoredButExpired(k, clock)

\* get(k) and mget(k) give absent from tbl, now and at every later time
AbsentFromNowOn(tbl, k) ==
    \A t \in clock..MaxTime :
        /\ ResultOf(getOutcome(tbl, k, t)) = Absent
        /\ ResultOf(mgetOutcome(tbl, <<k>>, t)) = Absent

\* the step is a set or an mset that names k
WritesKey(k) == last'.op \in {"set", "mset"} /\ k \in Range(last'.keys)

\* a step that is no write of k leaves k absent if it was
StaysAbsentUnlessWritten ==
    \A k \in Keys :
        (AbsentFromNowOn(rows, k) /\ ~WritesKey(k)) => AbsentFromNowOn(rows, k)'

C34_ExpiredStaysAbsentUntilWritten ==
    /\ [](\A k \in Keys : ReportedAbsentBecauseExpired(k) => AbsentFromNowOn(rows, k))
    /\ [][StaysAbsentUnlessWritten]_vars

\* what the code does: the claim, for a row whose expire_at is earlier than
\* the time of the read that found it expired
ExpiredEarlierStaysAbsentUntilWritten ==
    /\ [](\A k \in Keys :
            (/\ ReportedAbsentBecauseExpired(k)
             /\ StoredRow(rows, k).expire_at.n < clock)
            => AbsentFromNowOn(rows, k))
    /\ [][StaysAbsentUnlessWritten]_vars

(***************************************************************************)
(* C35: mset(pairs, ttl) changes only the rows whose keys are in pairs:    *)
(* every row with a key outside the batch keeps its value, created_at and  *)
(* expire_at, whether the call succeeds or fails.                          *)
(***************************************************************************)
\* key k has the same row, or no row, in both tables
SameRow(tbl1, tbl2, k) ==
    /\ HasRow(tbl1, k) <=> HasRow(tbl2, k)
    /\ HasRow(tbl1, k) => StoredRow(tbl1, k) = StoredRow(tbl2, k)

C35_WriteLeavesOtherKeys ==
    IsWrite =>
        \A k \in Keys : k \notin Range(last.keys) => SameRow(rows, last.before, k)

\* a write of one key succeeds next to the stored row of the other key
C35_Witness ==
    /\ IsWrite /\ last.status = "ok"
    /\ Len(last.keys) >= 1
    /\ \E k \in Keys :
         /\ k \notin Range(last.keys)
         /\ HasRow(last.before, k)
         /\ SameRow(rows, last.before, k)
    /\ \E i \in 1..Len(last.keys) : HasRow(last.before, last.keys[i])

(***************************************************************************)
(* C36: if a key appears more than once in one mset batch, then after the  *)
(* call exactly one row exists for that key, and its value is the value    *)
(* of the key's last occurrence in the batch.                              *)
(***************************************************************************)
\* the places of the batch that name key k
Occurrences(k) == {i \in 1..Len(last.pairs) : last.pairs[i].key = k}

LastOccurrence(k) == CHOOSE i \in Occurrences(k) : \A j \in Occurrences(k) : j <= i

C36_RepeatedKeyKeepsLastValue ==
    \A k \in Keys :
        (/\ last.op = "mset" /\ last.status = "ok"
         /\ Cardinality(Occurrences(k)) > 1)
        => (/\ Cardinality({i \in 1..Len(rows) : rows[i].key = k}) = 1
            /\ StoredRow(rows, k).val =
                   serializer_serialize(last.pairs[LastOccurrence(k)].value).val)

\* an mset names one key twice with two values, over a row the key had
C36_Witness ==
    /\ last.op = "mset" /\ last.status = "ok"
    /\ Len(last.pairs) = 2
    /\ last.pairs[1].key = last.pairs[2].key
    /\ last.pairs[1].value # last.pairs[2].value
    /\ HasRow(last.before, last.pairs[1].key)
    /\ StoredRow(rows, last.pairs[1].key).val =
           serializer_serialize(last.pairs[2].value).val

=============================================================================
